---- MODULE Spec2Model ----
(***************************************************************************)
(* A model of climate.c: main's loop over the file arguments, analyze_file *)
(* folding one fgets line at a time into the states array, and             *)
(* print_report.                                                           *)
(*                                                                         *)
(* Representation.  State codes are numbers standing for the code strings  *)
(* (0 is the empty string calloc leaves), compared as strcmp compares.     *)
(* Every decimal token of a line and every double of the program is held   *)
(* in tenths (290.0 K is 2900), so atof keeps the number and atoi drops    *)
(* the fractional digit.  Timestamps are small millisecond values.         *)
(* A line is what one fgets call returns, already cut into its fields:     *)
(* nf is the number of fields strtok finds; a field beyond nf is a NULL    *)
(* token, and the value the record holds for it is what reading through    *)
(* that NULL yields on a build where the read does not trap.               *)
(*                                                                         *)
(* Inputs.  Codes are two letters, so strcpy at line 192 stays inside      *)
(* code[3]; numeric fields are decimal numbers.  The counters stay far     *)
(* below the width of unsigned int, int and long long.  geoLocation, a     *)
(* pointer that line 205 only adds to and nothing reads through, is held   *)
(* as the number added to it.  ctime's text is held as the seconds it is   *)
(* given.                                                                  *)
(***************************************************************************)
EXTENDS Integers, Sequences, FiniteSets

\* ------------------------------------------------------------------ bounds
\* number of file arguments at most (argc - 1)
MaxArgs == 2
\* number of freely chosen lines over all files
MaxFree == 2

\* ------------------------------------------------------- program constants
NUM_STATES == 50
\* the sentinels of lines 193 and 194, in tenths
MinTempInit == -99990
MaxTempInit == 99990

VARIABLES
    argc,           \* main's argc
    openable,       \* for each argument 1..argc-1, whether fopen succeeds
    nFill,          \* the input starts with nFill lines of distinct codes
    pc,             \* where the program is
    i,              \* main's loop variable
    states,         \* the states array, indexed 0..NUM_STATES-1
    currentStates,  \* analyze_file's local
    line,           \* analyze_file's buffer: the last line fgets returned
    stderr,         \* the messages written to stderr
    stdout,         \* the report written by print_report
    analyzed,       \* history: the arguments analyze_file was called for
    folded          \* history: the lines whose record was counted (line
                    \* 199), each with the argument it was read from

vars == <<argc, openable, nFill, pc, i, states, currentStates, line,
          stderr, stdout, analyzed, folded>>

\* ------------------------------------------------------------- the data
NULL == [null |-> TRUE]

Indices == 0 .. (NUM_STATES - 1)

\* calloc(sizeof(struct climate_info), 1): every member zero
ZeroEntry ==
    [code |-> 0, num_records |-> 0, avgHumidity |-> 0, temperature |-> 0,
     maxTemp |-> 0, maxTempTimestamp |-> 0, minTemp |-> 0,
     minTempTimestamp |-> 0, lightning |-> 0, snow |-> 0, cloud |-> 0,
     geoLocation |-> 0, pressure |-> 0]

\* NewEntry without the strcpy of line 192
NewEntry_noCode(codex) ==
    [ZeroEntry EXCEPT !.minTemp = MinTempInit, !.maxTemp = MaxTempInit]

\* lines 191-194: the entry made for a code seen for the first time
NewEntry(codex) ==
    [ZeroEntry EXCEPT !.code = codex,
                      !.minTemp = MinTempInit,
                      !.maxTemp = MaxTempInit]

\* atoi of a decimal token held in tenths: the integer part
atoi(tok) == IF tok >= 0 THEN tok \div 10 ELSE -((-tok) \div 10)
\* atof of a decimal token held in tenths, as a double held in tenths
atof(tok) == tok
\* atoll of an integer token
atoll(tok) == tok

\* ------------------------------------------------------------ the inputs
\* the codes of the freely chosen lines
FreeCodes == {1, 2}
\* the code of the k-th of the leading lines of distinct codes: the first
\* of them has a code the freely chosen lines use too
FillCode(k) == k + 1
\* how many such lines the input starts with: none or one, or as many as
\* the array holds (the inputs of SpecFull)
FillChoices == {0, 1}
FillFull == {NUM_STATES}

\* the observations: an ordinary one, one hotter than the sentinel of
\* line 194 and one colder than the sentinel of line 193
Normal == [ts |-> 1000, geo |-> 57, hum |-> 500, snow |-> 0, cloud |-> 600,
           light |-> 10, pres |-> 10000, temp |-> 2900]
Hot    == [ts |-> 2000, geo |-> 99, hum |-> 300, snow |-> 0, cloud |-> 0,
           light |-> 0, pres |-> 10100, temp |-> 100000]
Cold   == [ts |-> 3000, geo |-> 100, hum |-> 900, snow |-> 10, cloud |-> 1000,
           light |-> 0, pres |-> 9900, temp |-> -100000]
Readings == {Normal, Hot, Cold}

\* a line of n fields: its fields come from r, and g is what the build
\* reads for the fields it does not have
MkLine(n, c, r, g) ==
    [nf    |-> n,
     code  |-> c,
     ts    |-> IF n >= 2 THEN r.ts    ELSE g.ts,
     geo   |-> IF n >= 3 THEN r.geo   ELSE g.geo,
     hum   |-> IF n >= 4 THEN r.hum   ELSE g.hum,
     snow  |-> IF n >= 5 THEN r.snow  ELSE g.snow,
     cloud |-> IF n >= 6 THEN r.cloud ELSE g.cloud,
     light |-> IF n >= 7 THEN r.light ELSE g.light,
     pres  |-> IF n >= 8 THEN r.pres  ELSE g.pres,
     temp  |-> IF n >= 9 THEN r.temp  ELSE g.temp]

\* the field counts of the short lines: an empty line, 5 and 8 fields
ShortCounts == {0, 5, 8}
\* the codes of the short lines
ShortCodes == {1}

FreeLines ==
    {MkLine(9, c, r, r) : c \in FreeCodes, r \in Readings}
    \cup
    UNION {{MkLine(n, c, Normal, g) : c \in ShortCodes, g \in Readings} :
           n \in ShortCounts}

FillLine(k) == MkLine(9, FillCode(k), Normal, Normal)

\* the buffer before the first fgets
NoLine == [nf |-> -1]

\* ------------------------------------------------------------ the program
\* countStates, lines 126-134
RECURSIVE countLoop(_, _, _)
countLoop(sts, num_states, num) ==
    IF num < num_states /\ sts[num] # NULL
        THEN countLoop(sts, num_states, num + 1)
        ELSE num

\* analyze_file starting every file with currentStates = 0
countStates_zero(sts, num_states) == 0

countStates(sts, num_states) == countLoop(sts, num_states, 0)

\* compareOrder, lines 139-155
RECURSIVE compareLoop(_, _, _, _)
compareLoop(sts, codex, cs, order) ==
    CASE ~(order < cs) -> -1
      [] order < cs /\ sts[order] = NULL -> -1
      [] order < cs /\ sts[order] # NULL /\ sts[order].code = codex -> order
      [] OTHER -> compareLoop(sts, codex, cs, order + 1)

\* compareOrder with the loop bound one too small
compareOrder_offByOne(sts, codex, cs) == compareLoop(sts, codex, cs - 1, 0)

\* compareOrder comparing no character of the codes
compareOrder_anyCode(sts, codex, cs) ==
    IF cs > 0 /\ sts[0] # NULL THEN 0 ELSE -1

compareOrder(sts, codex, cs) == compareLoop(sts, codex, cs, 0)

\* the capacity test made before the code is looked up
TooMany_anyLine(stateNumOrder, cs, num_states) == cs >= num_states

\* lines 184 and 186: the code is new and the array is full
TooMany(stateNumOrder, cs, num_states) ==
    stateNumOrder = -1 /\ cs >= num_states

\* lines 226-235: the two extrema and their timestamps
Extrema(e, temp, ts) ==
    IF temp < e.minTemp
        THEN [e EXCEPT !.minTemp = temp, !.minTempTimestamp = atoll(ts)]
        ELSE IF temp > e.maxTemp
                 THEN [e EXCEPT !.maxTemp = temp,
                                !.maxTempTimestamp = atoll(ts)]
                 ELSE e

\* Accumulate with num_records = 1 in place of += 1
Accumulate_setOne(e, ln, trap) ==
    [e EXCEPT !.num_records = 1,
              !.geoLocation = @ + ln.geo,
              !.avgHumidity = @ + atof(ln.hum),
              !.snow = @ + atoi(ln.snow),
              !.cloud = @ + atof(ln.cloud),
              !.lightning = @ + atoi(ln.light),
              !.pressure = @ + atof(ln.pres),
              !.temperature = @ + atof(ln.temp)]

\* Accumulate without line 199
Accumulate_noCount(e, ln, trap) ==
    [e EXCEPT !.geoLocation = @ + ln.geo,
              !.avgHumidity = @ + atof(ln.hum),
              !.snow = @ + atoi(ln.snow),
              !.cloud = @ + atof(ln.cloud),
              !.lightning = @ + atoi(ln.light),
              !.pressure = @ + atof(ln.pres),
              !.temperature = @ + atof(ln.temp)]

\* lines 199-235 on the entry of the line's state.  The fields are read in
\* the order 3, 4, ..., 9; reading a field the line does not have goes
\* through a NULL token, and with trap the process dies at the first such
\* read, after the statements before it.
Accumulate(e, ln, trap) ==
    LET read(k) == k <= ln.nf \/ ~trap
        e1 == [e  EXCEPT !.num_records = @ + 1]
        e3 == IF read(3) THEN [e1 EXCEPT !.geoLocation = @ + ln.geo] ELSE e1
        e4 == IF read(4) THEN [e3 EXCEPT !.avgHumidity = @ + atof(ln.hum)]
                         ELSE e3
        e5 == IF read(5) THEN [e4 EXCEPT !.snow = @ + atoi(ln.snow)] ELSE e4
        e6 == IF read(6) THEN [e5 EXCEPT !.cloud = @ + atof(ln.cloud)] ELSE e5
        e7 == IF read(7) THEN [e6 EXCEPT !.lightning = @ + atoi(ln.light)]
                         ELSE e6
        e8 == IF read(8) THEN [e7 EXCEPT !.pressure = @ + atof(ln.pres)]
                         ELSE e7
        e9 == IF read(9)
                  THEN Extrema([e8 EXCEPT !.temperature = @ + atof(ln.temp)],
                               atof(ln.temp), ln.ts)
                  ELSE e8
    IN  e9

\* One iteration of the loop of lines 168-236 on the line ln.
\*   where:   "analyze" (the loop goes on), "exit_toomany" (line 189) or
\*            "crashed" (a read through a NULL token trapped)
\*   counted: line 199 was executed
Fold(sts, cs, ln, trap) ==
    LET noCode == ln.nf = 0
        \* strcmp(..., NULL) at line 148 is reached
        cmpNull == noCode /\ cs > 0 /\ sts[0] # NULL
        found == compareOrder(sts, ln.code, cs)
    IN  IF cmpNull /\ trap
            THEN [states |-> sts, currentStates |-> cs,
                  where |-> "crashed", counted |-> FALSE]
        ELSE IF TooMany(found, cs, NUM_STATES)
            THEN [states |-> sts, currentStates |-> cs,
                  where |-> "exit_toomany", counted |-> FALSE]
        ELSE IF found = -1 /\ noCode /\ trap
            \* line 191 is done and strcpy(..., NULL) at line 192 traps
            THEN [states |-> [sts EXCEPT ![cs] = ZeroEntry],
                  currentStates |-> cs,
                  where |-> "crashed", counted |-> FALSE]
        ELSE LET st1 == IF found = -1
                            THEN [sts EXCEPT ![cs] = NewEntry(ln.code)]
                            ELSE sts
                 stateNumOrder == IF found = -1 THEN cs ELSE found
                 cs1 == IF found = -1 THEN cs + 1 ELSE cs
             IN  [states |-> [st1 EXCEPT ![stateNumOrder] =
                                  Accumulate(@, ln, trap)],
                  currentStates |-> cs1,
                  where |-> IF trap /\ ln.nf < 9 THEN "crashed"
                                                 ELSE "analyze",
                  counted |-> TRUE]

\* a quotient printed with %.1f, in tenths; a zero divisor prints nan
Avg1(sum, n) == IF n = 0 THEN "nan" ELSE (2 * sum + n) \div (2 * n)

\* kelvin * 1.8 - 459.67 printed with %.1f, in tenths of a degree F, for
\* the quotient sum / n of tenths of a kelvin
Fahrenheit1(sum, n) ==
    IF n = 0 THEN "nan"
    ELSE (2 * (18 * sum - 45967 * n) + 10 * n) \div (20 * n)

\* lines 257-273: the block printed for one entry
Block(e) ==
    [code |-> e.code,
     num_records |-> e.num_records,
     avgHumidity |-> Avg1(e.avgHumidity, e.num_records),
     avgTemp |-> Fahrenheit1(e.temperature, e.num_records),
     maxTemp |-> Fahrenheit1(e.maxTemp, 1),
     maxOn |-> e.maxTempTimestamp \div 1000,
     minTemp |-> Fahrenheit1(e.minTemp, 1),
     minOn |-> e.minTempTimestamp \div 1000,
     lightning |-> e.lightning,
     snow |-> e.snow,
     avgCloud |-> Avg1(e.cloud, e.num_records)]

\* lines 243-250: the codes of the "States found:" line
RECURSIVE HeaderLoop(_, _, _)
HeaderLoop(sts, num_states, k) ==
    IF k < num_states
        THEN (IF sts[k] # NULL THEN <<sts[k].code>> ELSE <<>>)
             \o HeaderLoop(sts, num_states, k + 1)
        ELSE <<>>

\* lines 255-274: the blocks, up to the first NULL entry
RECURSIVE BlockLoop(_, _, _)
BlockLoop(sts, num_states, k) ==
    IF k < num_states /\ sts[k] # NULL
        THEN <<Block(sts[k])>> \o BlockLoop(sts, num_states, k + 1)
        ELSE <<>>

print_report(sts, num_states) ==
    [header |-> HeaderLoop(sts, num_states, 0),
     blocks |-> BlockLoop(sts, num_states, 0)]

NoReport == [header |-> <<>>, blocks |-> <<>>, printed |-> FALSE]

\* ------------------------------------------------------------ the actions
InitWith(fills) ==
    /\ argc \in 1 .. (MaxArgs + 1)
    /\ openable \in [1 .. (argc - 1) -> BOOLEAN]
    /\ nFill \in fills
    /\ pc = "start"
    /\ i = 1
    /\ states = [k \in Indices |-> NULL]
    /\ currentStates = 0
    /\ line = NoLine
    /\ stderr = <<>>
    /\ stdout = NoReport
    /\ analyzed = <<>>
    /\ folded = <<>>

Init == InitWith(FillChoices)

\* the inputs that fill the array
InitFull == InitWith(FillFull)

\* lines 92-95
Usage ==
    /\ pc = "start"
    /\ argc < 2
    /\ stderr' = Append(stderr, <<"usage">>)
    /\ pc' = "exit_usage"
    /\ UNCHANGED <<argc, openable, nFill, i, states, currentStates, line,
                   stdout, analyzed, folded>>

\* lines 99-102
Begin ==
    /\ pc = "start"
    /\ argc >= 2
    /\ states' = [k \in Indices |-> NULL]
    /\ i' = 1
    /\ pc' = "main"
    /\ UNCHANGED <<argc, openable, nFill, currentStates, line, stderr,
                   stdout, analyzed, folded>>

\* OpenFail with break in place of continue
OpenFail_break ==
    /\ pc = "main"
    /\ i < argc
    /\ ~openable[i]
    /\ stderr' = Append(stderr, <<"open", i>>)
    /\ i' = argc
    /\ UNCHANGED <<argc, openable, nFill, pc, states, currentStates, line,
                   stdout, analyzed, folded>>

\* lines 104-110: fopen fails
OpenFail ==
    /\ pc = "main"
    /\ i < argc
    /\ ~openable[i]
    /\ stderr' = Append(stderr, <<"open", i>>)
    /\ i' = i + 1
    /\ UNCHANGED <<argc, openable, nFill, pc, states, currentStates, line,
                   stdout, analyzed, folded>>

\* lines 104, 113 and 164: fopen succeeds and analyze_file starts
OpenOk ==
    /\ pc = "main"
    /\ i < argc
    /\ openable[i]
    /\ currentStates' = countStates(states, NUM_STATES)
    /\ analyzed' = Append(analyzed, i)
    /\ pc' = "analyze"
    /\ UNCHANGED <<argc, openable, nFill, i, states, line, stderr, stdout,
                   folded>>

\* lines 168-236: fgets returns ln
ReadLine(ln, trap) ==
    LET r == Fold(states, currentStates, ln, trap)
    IN  /\ pc = "analyze"
        /\ line' = ln
        /\ states' = r.states
        /\ currentStates' = r.currentStates
        /\ pc' = r.where
        /\ folded' = IF r.counted
                          THEN Append(folded, [file |-> i, line |-> ln])
                          ELSE folded
        /\ stderr' = IF r.where = "exit_toomany"
                         THEN Append(stderr, <<"toomany", currentStates>>)
                         ELSE stderr
        /\ UNCHANGED <<argc, openable, nFill, i, stdout, analyzed>>

\* the next of the leading lines of distinct codes
ReadFill ==
    /\ Len(folded) < nFill
    /\ ReadLine(FillLine(Len(folded) + 1), FALSE)

\* the number of lines of fewer than 9 fields among lns
ShortRead(lns) ==
    Cardinality({k \in 1 .. Len(lns) : lns[k].line.nf < 9})

\* a freely chosen line; an input has at most one line of fewer than 9
\* fields that is read to its end
ReadFree ==
    /\ Len(folded) >= nFill
    /\ Len(folded) < nFill + MaxFree
    /\ \E ln \in FreeLines, trap \in BOOLEAN :
           /\ ln.nf < 9 => ShortRead(folded) = 0
           /\ trap => ln.nf < 9
           /\ ReadLine(ln, trap)

\* line 168, fgets returns NULL, and lines 114-115
ReadEOF ==
    /\ pc = "analyze"
    /\ Len(folded) >= nFill
    /\ pc' = "main"
    /\ i' = i + 1
    /\ UNCHANGED <<argc, openable, nFill, states, currentStates, line,
                   stderr, stdout, analyzed, folded>>

\* lines 118-120
Report ==
    /\ pc = "main"
    /\ i >= argc
    /\ stdout' = [header |-> print_report(states, NUM_STATES).header,
                  blocks |-> print_report(states, NUM_STATES).blocks,
                  printed |-> TRUE]
    /\ pc' = "done"
    /\ UNCHANGED <<argc, openable, nFill, i, states, currentStates, line,
                   stderr, analyzed, folded>>

Next ==
    \/ Usage
    \/ Begin
    \/ OpenFail
    \/ OpenOk
    \/ ReadFill
    \/ ReadFree
    \/ ReadEOF
    \/ Report

Spec == Init /\ [][Next]_vars

SpecFull == InitFull /\ [][Next]_vars

\* ------------------------------------------------- what the claims speak of
\* the indices of the entries that are not NULL
Present == {k \in Indices : states[k] # NULL}

\* the codes of the table, by index
RECURSIVE CodesFrom(_)
CodesFrom(k) ==
    IF k >= NUM_STATES THEN <<>>
    ELSE (IF states[k] # NULL THEN <<states[k].code>> ELSE <<>>)
         \o CodesFrom(k + 1)

TableCodes == CodesFrom(0)

\* the codes of the counted lines, in the order they were read
FoldedCodes == [k \in 1 .. Len(folded) |-> folded[k].line.code]

\* the codes of the first n counted lines, each code once, in the order of
\* their first lines
RECURSIVE FirstSeenTo(_)
FirstSeenTo(n) ==
    IF n = 0 THEN <<>>
    ELSE LET front == FirstSeenTo(n - 1)
             c == FoldedCodes[n]
         IN  IF \E k \in 1 .. Len(front) : front[k] = c
                 THEN front
                 ELSE Append(front, c)

FirstSeen == FirstSeenTo(Len(folded))

\* the number of counted lines of code c
LinesOf(c) == Cardinality({k \in 1 .. Len(folded) : folded[k].line.code = c})

RECURSIVE SumRecords(_)
SumRecords(k) ==
    IF k >= NUM_STATES THEN 0
    ELSE (IF states[k] # NULL THEN states[k].num_records ELSE 0)
         + SumRecords(k + 1)

\* num_records of the entry at index k of the table sts, 0 where there is none
NumRecords(sts, k) == IF sts[k] = NULL THEN 0 ELSE sts[k].num_records

\* the step reads a line (fgets did not return NULL)
ReadStep == pc = "analyze" /\ pc' # "main" /\ vars' # vars

\* C1: no two entries of the states table carry the same code, whatever
\* lines were folded and from however many files.
C1_UniqueCodes ==
    Cardinality({states[k].code : k \in Present}) = Cardinality(Present)

\* a code folded from two different files, the report printed
C1_Witness ==
    /\ pc = "done"
    /\ \E a, b \in 1 .. Len(folded) :
           /\ folded[a].file # folded[b].file
           /\ folded[a].line.code = folded[b].line.code

\* C2: the order of the entries, and of the codes of the report, is the
\* order in which the codes first appeared over the folded lines.
C2_FirstSeenOrder ==
    /\ pc # "crashed" => TableCodes = FirstSeen
    /\ pc = "done" =>
           /\ stdout.header = FirstSeen
           /\ [k \in 1 .. Len(stdout.blocks) |-> stdout.blocks[k].code]
                  = FirstSeen

\* codes a, b, a were folded, the report lists a, b
C2_Witness ==
    /\ pc = "done"
    /\ Len(folded) = 3
    /\ FoldedCodes[1] = FoldedCodes[3]
    /\ FoldedCodes[1] # FoldedCodes[2]
    /\ stdout.header = <<FoldedCodes[1], FoldedCodes[2]>>

\* C3: when every folded line has 8 or more fields, each entry's
\* num_records is the number of folded lines of its code, and the
\* num_records add up to the number of folded lines.
C3_RecordCounts ==
    (\A k \in 1 .. Len(folded) : folded[k].line.nf >= 8) =>
        /\ \A k \in Present : states[k].num_records = LinesOf(states[k].code)
        /\ SumRecords(0) = Len(folded)

\* two codes, one of them folded twice
C3_Witness ==
    /\ pc = "done"
    /\ \A k \in 1 .. Len(folded) : folded[k].line.nf >= 8
    /\ \E a, b \in Present :
           states[a].num_records = 2 /\ states[b].num_records = 1

\* C4 (as claimed): a state with exactly one record, of 9 fields, has
\* minTemp = maxTemp = that record's temperature and both timestamps equal
\* to that record's timestamp.
C4_SingleRecordExtrema ==
    \A k \in Present :
        \A n \in 1 .. Len(folded) :
            (/\ states[k].num_records = 1
             /\ folded[n].line.code = states[k].code
             /\ folded[n].line.nf = 9)
            => /\ states[k].minTemp = atof(folded[n].line.temp)
               /\ states[k].maxTemp = atof(folded[n].line.temp)
               /\ states[k].minTempTimestamp = atoll(folded[n].line.ts)
               /\ states[k].maxTempTimestamp = atoll(folded[n].line.ts)

\* C5 (as claimed): reading a line of 5 fields changes no entry's
\* num_records, and the program goes on or stops in a defined way.
C5_ShortLineRejected ==
    [][(ReadStep /\ line'.nf = 5) =>
           /\ \A k \in Indices : NumRecords(states', k) = NumRecords(states, k)
           /\ pc' # "crashed"]_vars

\* C6: where the report can be produced, every entry that is not NULL has
\* num_records >= 1.
C6_NoEmptyEntry ==
    pc \in {"start", "main", "analyze", "done"} =>
        \A k \in Present : states[k].num_records >= 1

\* the report was printed with at least one block
C6_Witness ==
    /\ pc = "done"
    /\ Len(stdout.blocks) >= 1
    /\ \A k \in 1 .. Len(stdout.blocks) : stdout.blocks[k].num_records >= 1

\* the arguments among a .. argc-1 that can (want) or cannot be opened
RECURSIVE ArgsFrom(_, _)
ArgsFrom(a, want) ==
    IF a >= argc THEN <<>>
    ELSE (IF openable[a] = want THEN <<a>> ELSE <<>>) \o ArgsFrom(a + 1, want)

\* the table one analyze_file call builds on an empty array from the first
\* n counted lines
RECURSIVE TableTo(_)
TableTo(n) ==
    IF n = 0
        THEN [states |-> [k \in Indices |-> NULL], currentStates |-> 0]
        ELSE LET t == TableTo(n - 1)
                 r == Fold(t.states, t.currentStates, folded[n].line, FALSE)
             IN  [states |-> r.states, currentStates |-> r.currentStates]

OneCallTable == TableTo(Len(folded)).states

\* C7: when main returns, every argument that cannot be opened was reported
\* and skipped, every other argument was analysed, in argument order, the
\* report was printed, and the table is the one the folded lines give
\* without the unopenable arguments.
C7_SkipUnopenable ==
    pc = "done" =>
        /\ analyzed = ArgsFrom(1, TRUE)
        /\ stderr = [k \in 1 .. Len(ArgsFrom(1, FALSE)) |->
                         <<"open", ArgsFrom(1, FALSE)[k]>>]
        /\ \A k \in 1 .. Len(folded) : openable[folded[k].file]
        /\ stdout.printed
        /\ states = OneCallTable
        /\ stdout.header = print_report(OneCallTable, NUM_STATES).header

\* the first argument could not be opened, a later one was folded and
\* reported
C7_Witness ==
    /\ pc = "done"
    /\ argc >= 3
    /\ ~openable[1]
    /\ \E k \in 1 .. Len(folded) : folded[k].file > 1
    /\ Len(stdout.blocks) >= 1

\* C8: a line of a new code read while the table holds NUM_STATES entries
\* stops the program before any entry changes and with no report; a line of
\* a new code read while it holds fewer is inserted; a line of a code in the
\* table never stops it; nothing happens after the stop.
C8_Capacity ==
    [][/\ pc # "exit_toomany"
       /\ (ReadStep /\ line'.nf >= 1) =>
              LET known == \E k \in Present : states[k].code = line'.code
                  n == Cardinality(Present)
              IN  /\ (~known /\ n >= NUM_STATES) =>
                         /\ pc' = "exit_toomany"
                         /\ states' = states
                         /\ ~stdout'.printed
                  /\ (~known /\ n < NUM_STATES) =>
                         /\ pc' # "exit_toomany"
                         /\ states'[n] # NULL
                         /\ states'[n].code = line'.code
                  /\ known => pc' # "exit_toomany"]_vars

\* the program stopped on a full table, after a line of a code in the table
\* was counted on the full table
C8_Witness ==
    /\ pc = "exit_toomany"
    /\ Cardinality(Present) = NUM_STATES
    /\ Len(folded) > NUM_STATES
    /\ ~stdout.printed

\* C9: the entries that are not NULL are a prefix of the array, inside
\* analyze_file currentStates is their number, and the header of the report
\* lists the codes of the blocks in the same order.
C9_ContiguousPrefix ==
    pc \in {"main", "analyze", "done"} =>
        /\ Present = 0 .. (Cardinality(Present) - 1)
        /\ pc = "analyze" => currentStates = Cardinality(Present)
        /\ pc = "done" =>
               stdout.header =
                   [k \in 1 .. Len(stdout.blocks) |-> stdout.blocks[k].code]

\* two files were analysed, the second one added a code; the report has
\* both
C9_Witness ==
    /\ pc = "done"
    /\ Len(analyzed) >= 2
    /\ Len(stdout.header) = 2
    /\ \E a, b \in 1 .. Len(folded) :
           /\ folded[a].file # folded[b].file
           /\ folded[a].line.code # folded[b].line.code

\* C10: reading a line of 8 or more fields of code c leaves every entry of
\* another code as it was, at its index, and changes no entry's code.
C10_Frame ==
    [][(ReadStep /\ line'.nf >= 8) =>
           \A k \in Present :
               /\ states'[k] # NULL
               /\ states'[k].code = states[k].code
               /\ states[k].code # line'.code => states'[k] = states[k]]_vars

\* two entries, the second one folded twice
C10_Witness ==
    /\ pc = "analyze"
    /\ Cardinality(Present) = 2
    /\ states[0].num_records = 1
    /\ states[1].num_records = 2
    /\ \A k \in 1 .. Len(folded) : folded[k].line.nf = 9

====
